---- MODULE Spec2Model ----
(***************************************************************************)
(* Contact-management backend: per-user contact records (repository and    *)
(* routes), and the authentication / token life cycle (signup, login,      *)
(* refresh, e-mail confirmation, password reset, avatar).                  *)
(*                                                                         *)
(* Five specifications share the module:                                   *)
(*   SpecContacts    the contact routes, one action per route handler;     *)
(*   Spec            the auth routes, one action per route handler;        *)
(*   SpecRace        the auth routes with refresh_token split at its       *)
(*                   awaits;                                               *)
(*   SpecMail        the routes that queue a mail, and the background      *)
(*                   task that delivers it or fails;                       *)
(*   SpecSignupRace  signup split at its awaits.                           *)
(***************************************************************************)
EXTENDS Integers, Sequences, FiniteSets, TLC

VARIABLES
    contacts,   \* the contacts table, in storage order
    next_id,    \* the next value of the contacts.id sequence
    cresp,      \* the last response of a contact route
    users,      \* the users table: e-mail -> row
    now,        \* the clock the token service reads
    resp,       \* the last response of an auth / users route
    rq,         \* requests in flight between two awaits (SpecRace, SpecSignupRace)
    cache       \* the cache of the auth service: e-mail -> pickled user row

cvars == <<contacts, next_id, cresp>>
avars == <<users, now, resp, rq, cache>>
vars == <<contacts, next_id, cresp, users, now, resp, rq, cache>>

(***************************************************************************)
(* Bounds                                                                  *)
(***************************************************************************)
MaxId == 3          \* contact ids handed out
MaxLimit == 2       \* limit / offset values tried by the pagination check
MaxDays == 7        \* the `days` argument of the birthday query

SearchLimit == 10   \* routes/contacts.py: limit = Query(10, ge=10, le=500)

UserIds == {1, 2}

(***************************************************************************)
(* Strings are sequences of characters, so that ILIKE can look inside.     *)
(***************************************************************************)
Lower(c) ==
    CASE c = "A" -> "a"
      [] c = "B" -> "b"
      [] c = "O" -> "o"
      [] c = "S" -> "s"
      [] OTHER -> c

RECURSIVE LikeMatch(_, _)
\* SQL LIKE on lower-cased operands: % matches any run, _ any one character
LikeMatch(p, s) ==
    IF p = <<>> THEN s = <<>>
    ELSE IF Head(p) = "%"
         THEN LikeMatch(Tail(p), s) \/ (s # <<>> /\ LikeMatch(p, Tail(s)))
         ELSE /\ s # <<>>
              /\ (Head(p) = "_" \/ Lower(Head(p)) = Lower(Head(s)))
              /\ LikeMatch(Tail(p), Tail(s))

ilike(s, p) == LikeMatch(p, s)

None == <<>>        \* an absent query parameter / an absent row

(***************************************************************************)
(* Dates                                                                   *)
(***************************************************************************)
IsLeap(y) == (y % 4 = 0 /\ y % 100 # 0) \/ y % 400 = 0

DaysInMonth(y, m) ==
    CASE m \in {4, 6, 9, 11} -> 30
      [] m = 2 -> IF IsLeap(y) THEN 29 ELSE 28
      [] OTHER -> 31

NextDay(dt) ==
    IF dt.d < DaysInMonth(dt.y, dt.m) THEN [dt EXCEPT !.d = @ + 1]
    ELSE IF dt.m < 12 THEN [dt EXCEPT !.m = @ + 1, !.d = 1]
    ELSE [y |-> dt.y + 1, m |-> 1, d |-> 1]

RECURSIVE timedelta(_, _)
\* today + timedelta(days)
timedelta(dt, days) == IF days = 0 THEN dt ELSE timedelta(NextDay(dt), days - 1)

\* strftime('%m-%d') / to_char(.., 'MM-DD'): the zero-padded digits
\* (the dash sits at the same place in every string and is left out)
strftime(dt) == <<dt.m \div 10, dt.m % 10, dt.d \div 10, dt.d % 10>>

RECURSIVE StrLE(_, _)
\* string comparison a <= b, character by character
StrLE(a, b) ==
    IF a = <<>> THEN TRUE
    ELSE IF b = <<>> THEN FALSE
    ELSE IF Head(a) < Head(b) THEN TRUE
    ELSE IF Head(a) > Head(b) THEN FALSE
    ELSE StrLE(Tail(a), Tail(b))

between(x, lo, hi) == StrLE(lo, x) /\ StrLE(x, hi)

Date(y, m, d) == [y |-> y, m |-> m, d |-> d]

(***************************************************************************)
(* Request payloads (ContactModel)                                         *)
(***************************************************************************)
Body(n, s, e, p, b) == [name |-> n, surname |-> s, email |-> e, phone |-> p, birthday |-> b]

Bodies ==
    { Body(<<"B","o","b">>, <<"S","m">>, <<"b","@","x">>, "111", Date(1990, 1, 3)),
      Body(<<"b","o">>, <<"a","_">>, <<"b","@","x">>, "222", Date(1990, 12, 20)),
      Body(<<"A","b">>, <<"S","m">>, <<"a","@","x">>, "333", Date(1985, 12, 31)) }

\* the filters tried by the search route (None: not supplied), with the offset
SearchArgs ==
    { <<None, None, None, 0>>, <<None, None, None, 1>>,
      <<<<"b">>, None, None, 0>>, <<<<"B","O">>, <<"s","m">>, None, 0>>,
      <<None, <<"_">>, <<"B","@">>, 0>> }

\* (skip, limit) tried by the list route
PageArgs == { <<0, MaxLimit>>, <<1, 1>>, <<1, MaxLimit>> }

\* (clock reading, days) tried by the birthday route
BirthdayArgs ==
    { <<Date(2023, 12, 30), MaxDays>>, <<Date(2023, 12, 28), 0>>,
      <<Date(2023, 12, 14), MaxDays>> }

Contact(id, body, user) ==
    [id |-> id, name |-> body.name, surname |-> body.surname, email |-> body.email,
     phone |-> body.phone, birthday |-> body.birthday, user_id |-> user]

(***************************************************************************)
(* Sequence helpers                                                        *)
(***************************************************************************)
Range(s) == { s[i] : i \in DOMAIN s }

\* OFFSET skip LIMIT limit over a result set
Page(rows, skip, limit) ==
    SubSeq(rows, skip + 1, IF skip + limit < Len(rows) THEN skip + limit ELSE Len(rows))

RECURSIVE SelectSeqBy(_, _)
SelectSeqBy(s, keep) ==
    IF s = <<>> THEN <<>>
    ELSE IF Head(s) \in keep THEN <<Head(s)>> \o SelectSeqBy(Tail(s), keep)
    ELSE SelectSeqBy(Tail(s), keep)

\* the rows of the table that satisfy a predicate given as the set of rows kept
Rows(cs, keep) == SelectSeqBy(cs, keep)

OwnedBy(cs, user) == { c \in Range(cs) : c.user_id = user }

(***************************************************************************)
(* src/repository/contacts.py                                              *)
(***************************************************************************)
\* variant: the list query has no filter on the owner
get_contacts_all_owners(cs, skip, limit, user) ==
    Page(cs, skip, limit)

get_contacts(cs, skip, limit, user) ==
    Page(Rows(cs, OwnedBy(cs, user)), skip, limit)

get_contact_by_id(cs, contact_id, user) ==
    Rows(cs, { c \in Range(cs) : c.id = contact_id /\ c.user_id = user })

\* variant: the search query forgets OFFSET
search_contacts_no_offset(cs, name, surname, email, limit, offset, user) ==
    LET byName == IF name # None
                  THEN { c \in Range(cs) : ilike(c.name, <<"%">> \o name \o <<"%">>) }
                  ELSE Range(cs)
        bySurname == IF surname # None
                     THEN { c \in Range(cs) : ilike(c.surname, <<"%">> \o surname \o <<"%">>) }
                     ELSE Range(cs)
        byEmail == IF email # None
                   THEN { c \in Range(cs) : ilike(c.email, <<"%">> \o email \o <<"%">>) }
                   ELSE Range(cs)
    IN  Page(Rows(cs, OwnedBy(cs, user) \cap byName \cap bySurname \cap byEmail), 0, limit)

search_contacts(cs, name, surname, email, limit, offset, user) ==
    LET byName == IF name # None
                  THEN { c \in Range(cs) : ilike(c.name, <<"%">> \o name \o <<"%">>) }
                  ELSE Range(cs)
        bySurname == IF surname # None
                     THEN { c \in Range(cs) : ilike(c.surname, <<"%">> \o surname \o <<"%">>) }
                     ELSE Range(cs)
        byEmail == IF email # None
                   THEN { c \in Range(cs) : ilike(c.email, <<"%">> \o email \o <<"%">>) }
                   ELSE Range(cs)
    IN  Page(Rows(cs, OwnedBy(cs, user) \cap byName \cap bySurname \cap byEmail), offset, limit)

get_contacts_with_birthdays(cs, days, today, user) ==
    LET start == strftime(today)
        end == strftime(timedelta(today, days))
    IN  Rows(cs, { c \in Range(cs) : /\ between(strftime(c.birthday), start, end)
                                     /\ c.user_id = user })

\* the UNIQUE constraint on contacts.email (entity/models.py), checked at commit
EmailTaken(cs, email, except_id) ==
    \E c \in Range(cs) : c.email = email /\ c.id # except_id

\* the result of a repository call that writes: the table afterwards, the row
\* returned (<<>>: None), and whether commit raised IntegrityError
Result(cs, row, raised) == [contacts |-> cs, row |-> row, raised |-> raised]

\* variant: the new row is added without its owner
create_contact_no_owner(cs, id, body, user) ==
    LET contact == Contact(id, body, 0)
    IN  IF EmailTaken(cs, body.email, 0)
        THEN Result(cs, <<>>, TRUE)
        ELSE Result(Append(cs, contact), <<contact>>, FALSE)

create_contact(cs, id, body, user) ==
    LET contact == Contact(id, body, user)
    IN  IF EmailTaken(cs, body.email, 0)
        THEN Result(cs, <<>>, TRUE)
        ELSE Result(Append(cs, contact), <<contact>>, FALSE)

\* variant: the assignment of one field (phone) is missing
update_contact_keeps_phone(cs, contact_id, body, user) ==
    LET found == Rows(cs, { c \in Range(cs) : c.id = contact_id /\ c.user_id = user })
        contact == [Contact(contact_id, body, user) EXCEPT
                        !.phone = IF found = <<>> THEN @ ELSE found[1].phone]
    IN  IF found = <<>> THEN Result(cs, <<>>, FALSE)
        ELSE IF EmailTaken(cs, body.email, contact_id) THEN Result(cs, <<>>, TRUE)
        ELSE Result([i \in DOMAIN cs |-> IF cs[i] = found[1] THEN contact ELSE cs[i]],
                    <<contact>>, FALSE)

update_contact(cs, contact_id, body, user) ==
    LET found == Rows(cs, { c \in Range(cs) : c.id = contact_id /\ c.user_id = user })
        contact == Contact(contact_id, body, user)
    IN  IF found = <<>> THEN Result(cs, <<>>, FALSE)
        ELSE IF EmailTaken(cs, body.email, contact_id) THEN Result(cs, <<>>, TRUE)
        ELSE Result([i \in DOMAIN cs |-> IF cs[i] = found[1] THEN contact ELSE cs[i]],
                    <<contact>>, FALSE)

\* variant: the delete query filters by id alone
delete_contact_any_owner(cs, contact_id, user) ==
    LET found == Rows(cs, { c \in Range(cs) : c.id = contact_id })
    IN  IF found = <<>> THEN Result(cs, <<>>, FALSE)
        ELSE Result(Rows(cs, Range(cs) \ {found[1]}), found, FALSE)

\* variant: the row is returned but the delete is not carried out
delete_contact_not_carried_out(cs, contact_id, user) ==
    LET found == Rows(cs, { c \in Range(cs) : c.id = contact_id /\ c.user_id = user })
    IN  Result(cs, found, FALSE)

delete_contact(cs, contact_id, user) ==
    LET found == Rows(cs, { c \in Range(cs) : c.id = contact_id /\ c.user_id = user })
    IN  IF found = <<>> THEN Result(cs, <<>>, FALSE)
        ELSE Result(Rows(cs, Range(cs) \ {found[1]}), found, FALSE)

(***************************************************************************)
(* src/routes/contacts.py: one action per route handler.  `user` is the    *)
(* user the access token resolved to.                                      *)
(***************************************************************************)
NoArgs == [skip |-> 0]

Response(op, user, contact_id, args, status, body) ==
    [op |-> op, user |-> user, contact_id |-> contact_id, args |-> args,
     status |-> status, body |-> body]

route_get_contacts(user, skip, limit) ==
    /\ cresp' = Response("get_contacts", user, 0, [skip |-> skip, limit |-> limit], 200,
                         get_contacts(contacts, skip, limit, user))
    /\ UNCHANGED <<contacts, next_id, users, now, resp, rq, cache>>

route_get_contact(user, contact_id) ==
    LET contact == get_contact_by_id(contacts, contact_id, user)
    IN  /\ cresp' = IF contact = <<>>
                    THEN Response("get_contact", user, contact_id, NoArgs, 404, <<>>)
                    ELSE Response("get_contact", user, contact_id, NoArgs, 200, contact)
        /\ UNCHANGED <<contacts, next_id, users, now, resp, rq, cache>>

route_search_contacts(user, name, surname, email, limit, offset) ==
    /\ cresp' = Response("search_contacts", user, 0,
                         [name |-> name, surname |-> surname, email |-> email,
                          limit |-> limit, offset |-> offset], 200,
                         search_contacts(contacts, name, surname, email, limit, offset, user))
    /\ UNCHANGED <<contacts, next_id, users, now, resp, rq, cache>>

route_get_contacts_with_birthdays(user, days, today) ==
    /\ cresp' = Response("get_contacts_with_birthdays", user, 0,
                         [days |-> days, today |-> today], 200,
                         get_contacts_with_birthdays(contacts, days, today, user))
    /\ UNCHANGED <<contacts, next_id, users, now, resp, rq, cache>>

route_create_contact(user, body) ==
    LET r == create_contact(contacts, next_id, body, user)
    IN  /\ next_id <= MaxId
        /\ contacts' = r.contacts
        /\ next_id' = IF r.raised THEN next_id ELSE next_id + 1
        /\ cresp' = IF r.raised
                    THEN Response("create_contact", user, 0, [body |-> body], 500, <<>>)
                    ELSE Response("create_contact", user, 0, [body |-> body], 201, r.row)
        /\ UNCHANGED <<users, now, resp, rq, cache>>

route_update_contact(user, contact_id, body) ==
    LET r == update_contact(contacts, contact_id, body, user)
    IN  /\ contacts' = r.contacts
        /\ cresp' = IF r.raised
                    THEN Response("update_contact", user, contact_id, [body |-> body], 500, <<>>)
                    ELSE IF r.row = <<>>
                    THEN Response("update_contact", user, contact_id, [body |-> body], 404, <<>>)
                    ELSE Response("update_contact", user, contact_id, [body |-> body], 200, r.row)
        /\ UNCHANGED <<next_id, users, now, resp, rq, cache>>

route_delete_contact(user, contact_id) ==
    LET r == delete_contact(contacts, contact_id, user)
    IN  /\ contacts' = r.contacts
        /\ cresp' = IF r.row = <<>>
                    THEN Response("delete_contact", user, contact_id, NoArgs, 404, <<>>)
                    ELSE Response("delete_contact", user, contact_id, NoArgs, 204, r.row)
        /\ UNCHANGED <<next_id, users, now, resp, rq, cache>>

InitContacts ==
    /\ contacts = <<>>
    /\ next_id = 1
    /\ cresp = Response("none", 0, 0, NoArgs, 0, <<>>)

NextContacts ==
    \/ \E u \in UserIds, pg \in PageArgs : route_get_contacts(u, pg[1], pg[2])
    \/ \E u \in UserIds, id \in 1..MaxId : route_get_contact(u, id)
    \/ \E u \in UserIds, q \in SearchArgs :
          route_search_contacts(u, q[1], q[2], q[3], SearchLimit, q[4])
    \/ \E u \in UserIds, q \in BirthdayArgs :
          route_get_contacts_with_birthdays(u, q[2], q[1])
    \/ \E u \in UserIds, body \in Bodies : route_create_contact(u, body)
    \/ \E u \in UserIds, id \in 1..MaxId, body \in Bodies : route_update_contact(u, id, body)
    \/ \E u \in UserIds, id \in 1..MaxId : route_delete_contact(u, id)

(***************************************************************************)
(* Authentication: the users table, the token service and the auth routes  *)
(***************************************************************************)
MaxTime == 1        \* clock ticks

Emails == {"a@x.com", "b@x.com"}

\* passwords carry how they are stored, so that a hash is not its plaintext
Plain(p) == [alg |-> "plain", v |-> p]
SignupPasswords == { Plain("secret1") }
LoginPasswords == { Plain("secret1"), Plain("wrong00") }

\* the confirm_password sent along with the new password "newpass"
ResetPasswords == { Plain("newpass"), Plain("wrong00") }

NoAvatar == "None"

(* services/auth.py: the password hasher *)
get_password_hash(password) == [alg |-> "argon2", v |-> password.v]

verify_password(plain_password, hashed_password) ==
    hashed_password = get_password_hash(plain_password)

(* services/auth.py: the token service.  A token is its signed claims; two  *)
(* tokens with the same claims are the same token.                          *)
AccessTTL == 15
RefreshTTL == 10080
EmailTTL == 1440
OverrideTTL == 1

Token(scope, sub, iat, exp) ==
    [scope |-> scope, sub |-> sub, iat |-> iat, exp |-> exp, signed |-> TRUE]

NoToken == [scope |-> "null", sub |-> "", iat |-> 0, exp |-> 0, signed |-> FALSE]

\* a token signed with another key
Forged(sub) == [Token("refresh_token", sub, 0, RefreshTTL) EXCEPT !.signed = FALSE]

create_access_token(sub, t) == Token("access_token", sub, t, t + AccessTTL)

create_refresh_token(sub, t, expires_delta) ==
    Token("refresh_token", sub, t,
          t + (IF expires_delta # 0 THEN expires_delta ELSE RefreshTTL))

\* the e-mail token carries no scope claim
create_email_token(sub, t) == Token("", sub, t, t + EmailTTL)

Decoded(ok, email) == [ok |-> ok, email |-> email]

decode_refresh_token(token, t) ==
    Decoded(token.signed /\ t <= token.exp /\ token.scope = "refresh_token", token.sub)

get_email_from_token(token, t) ==
    Decoded(token.signed /\ t <= token.exp, token.sub)

(* repository/users.py *)
get_user_by_email(us, email) == IF email \in DOMAIN us THEN <<us[email]>> ELSE <<>>

\* variant: the confirmed column defaults to True
User_confirmed_by_default(email, password, avatar) ==
    [email |-> email, password |-> password, avatar |-> avatar,
     refresh_token |-> NoToken, confirmed |-> TRUE]

\* entity/models.py: a new row of the users table
User(email, password, avatar) ==
    [email |-> email, password |-> password, avatar |-> avatar,
     refresh_token |-> NoToken, confirmed |-> FALSE]

\* users.email is UNIQUE: a second row with the e-mail is not inserted
create_user(us, body, avatar) ==
    IF body.email \in DOMAIN us THEN us
    ELSE (body.email :> User(body.email, body.password, avatar)) @@ us

update_token(us, email, token) == [us EXCEPT ![email].refresh_token = token]

repo_confirmed_email(us, email) == [us EXCEPT ![email].confirmed = TRUE]

update_avatar_url(us, email, url) == [us EXCEPT ![email].avatar = url]

\* entity/models.py declares no password_reset_token column: the attribute
\* update_reset_token sets lives on the loaded instance and no row changes
update_reset_token(us, email, token) == us

\* the reset token a row of the users table holds (null: the table has no
\* column for it)
password_reset_token(user) ==
    IF "password_reset_token" \in DOMAIN user THEN user.password_reset_token ELSE NoToken

(***************************************************************************)
(* Responses of the auth routes                                            *)
(***************************************************************************)
NoBody == [access_token |-> NoToken, refresh_token |-> NoToken,
           reset_password_token |-> NoToken, fields |-> {}]

TokenBody(access, refresh) ==
    [access_token |-> access, refresh_token |-> refresh, reset_password_token |-> NoToken,
     fields |-> {"access_token", "refresh_token", "token_type"}]

\* schemas/user.py: UserResponse
UserBody == [access_token |-> NoToken, refresh_token |-> NoToken,
             reset_password_token |-> NoToken,
             fields |-> {"id", "username", "email", "avatar", "created_at"}]

MessageBody == [access_token |-> NoToken, refresh_token |-> NoToken,
                reset_password_token |-> NoToken, fields |-> {"message"}]

Mail(template, email, token) == [template |-> template, email |-> email, token |-> token]

\* services/email.py: the message each background task sends
send_email(email, t) == Mail("verify_email.html", email, create_email_token(email, t))

send_reset_password_email(email, t) ==
    Mail("reset_password.html", email, create_email_token(email, t))

Resp(op, email, token, status, detail, body, mail) ==
    [op |-> op, email |-> email, token |-> token, password |-> Plain(""),
     confirm_password |-> Plain(""), status |-> status, detail |-> detail, body |-> body, mail |-> mail,
     \* the background task the handler added to the response
     task |-> IF mail = <<>> THEN "none" ELSE "queued"]

\* variant: a failure of the delivery becomes the answer of the request
dispatch_propagates(r, delivered) ==
    IF delivered THEN [r EXCEPT !.task = "sent"]
    ELSE [r EXCEPT !.task = "failed", !.status = 500, !.detail = "Internal Server Error",
                   !.body = NoBody]

\* services/email.py: the background task of a response runs; send_message
\* delivers, or raises ConnectionErrors, which the task catches and prints
dispatch(r, delivered) == [r EXCEPT !.task = IF delivered THEN "sent" ELSE "failed"]

Outcome(us, r) == [users |-> us, resp |-> r]

\* the response, with the password the request carried noted on it
WithPassword(o, password) == [o EXCEPT !.resp.password = password]

\* the response, with the two passwords of a ResetPassword body noted on it
WithPasswords(o, new_password, confirm_password) ==
    [o EXCEPT !.resp.password = new_password, !.resp.confirm_password = confirm_password]

\* an exception no handler catches
ServerError(us, op, email, token) ==
    Outcome(us, Resp(op, email, token, 500, "Internal Server Error", NoBody, <<>>))

(***************************************************************************)
(* src/routes/auth.py: what each handler does to the table and answers     *)
(***************************************************************************)
\* variant: the password is stored as received
signup_plaintext(us, t, body, avatar) ==
    LET exist_user == get_user_by_email(us, body.email)
        created == create_user(us, body, avatar)
    IN  WithPassword(
          IF exist_user # <<>>
          THEN Outcome(us, Resp("signup", body.email, NoToken, 409, "Account already exists",
                                NoBody, <<>>))
          ELSE IF avatar = NoAvatar
          THEN ServerError(created, "signup", body.email, NoToken)
          ELSE Outcome(created, Resp("signup", body.email, NoToken, 201, "", UserBody,
                                     <<send_email(body.email, t)>>)),
          body.password)

\* variant: no look-up of the e-mail before the insert
signup_unchecked(us, t, body, avatar) ==
    LET hashed == [body EXCEPT !.password = get_password_hash(body.password)]
        created == create_user(us, hashed, avatar)
    IN  WithPassword(
          IF body.email \in DOMAIN us \/ avatar = NoAvatar
          THEN ServerError(created, "signup", body.email, NoToken)
          ELSE Outcome(created, Resp("signup", body.email, NoToken, 201, "", UserBody,
                                     <<send_email(body.email, t)>>)),
          body.password)

\* lines 32-37, with exist_user the row line 31 has read
signup_create(us, t, body, avatar, exist_user) ==
    LET hashed == [body EXCEPT !.password = get_password_hash(body.password)]
        created == create_user(us, hashed, avatar)
    IN  WithPassword(
          IF exist_user # <<>>
          THEN Outcome(us, Resp("signup", body.email, NoToken, 409, "Account already exists",
                                NoBody, <<>>))
          \* users.email is UNIQUE: the insert raises IntegrityError
          ELSE IF body.email \in DOMAIN us
          THEN ServerError(us, "signup", body.email, NoToken)
          ELSE IF avatar = NoAvatar
          \* UserResponse.avatar is a str: the response does not validate
          THEN ServerError(created, "signup", body.email, NoToken)
          ELSE Outcome(created, Resp("signup", body.email, NoToken, 201, "", UserBody,
                                     <<send_email(body.email, t)>>)),
          body.password)

signup(us, t, body, avatar) ==
    signup_create(us, t, body, avatar, get_user_by_email(us, body.email))

\* variant: the password is verified before the confirmed flag is looked at
login_password_first(us, t, username, password) ==
    LET user == get_user_by_email(us, username)
        access == create_access_token(username, t)
        refresh == create_refresh_token(username, t, 0)
    IN  WithPassword(
          IF user = <<>>
          THEN Outcome(us, Resp("login", username, NoToken, 401, "Invalid email", NoBody, <<>>))
          ELSE IF ~verify_password(password, user[1].password)
          THEN Outcome(us, Resp("login", username, NoToken, 401, "Invalid password",
                                NoBody, <<>>))
          ELSE IF ~user[1].confirmed
          THEN Outcome(us, Resp("login", username, NoToken, 401, "Email not confirmed",
                                NoBody, <<>>))
          ELSE Outcome(update_token(us, username, refresh),
                       Resp("login", username, NoToken, 200, "", TokenBody(access, refresh),
                            <<>>)),
          password)

\* variant: the refresh token issued at login is not written to the user row
login_token_not_stored(us, t, username, password) ==
    LET user == get_user_by_email(us, username)
        access == create_access_token(username, t)
        refresh == create_refresh_token(username, t, 0)
    IN  WithPassword(
          IF user = <<>>
          THEN Outcome(us, Resp("login", username, NoToken, 401, "Invalid email", NoBody, <<>>))
          ELSE IF ~user[1].confirmed
          THEN Outcome(us, Resp("login", username, NoToken, 401, "Email not confirmed",
                                NoBody, <<>>))
          ELSE IF ~verify_password(password, user[1].password)
          THEN Outcome(us, Resp("login", username, NoToken, 401, "Invalid password",
                                NoBody, <<>>))
          ELSE Outcome(us,
                       Resp("login", username, NoToken, 200, "", TokenBody(access, refresh),
                            <<>>)),
          password)

\* variant: a wrong password clears the refresh token stored on the user
login_wrong_password_clears(us, t, username, password) ==
    LET user == get_user_by_email(us, username)
        access == create_access_token(username, t)
        refresh == create_refresh_token(username, t, 0)
    IN  WithPassword(
          IF user = <<>>
          THEN Outcome(us, Resp("login", username, NoToken, 401, "Invalid email", NoBody, <<>>))
          ELSE IF ~user[1].confirmed
          THEN Outcome(us, Resp("login", username, NoToken, 401, "Email not confirmed",
                                NoBody, <<>>))
          ELSE IF ~verify_password(password, user[1].password)
          THEN Outcome(update_token(us, username, NoToken),
                       Resp("login", username, NoToken, 401, "Invalid password",
                            NoBody, <<>>))
          ELSE Outcome(update_token(us, username, refresh),
                       Resp("login", username, NoToken, 200, "", TokenBody(access, refresh),
                            <<>>)),
          password)

login(us, t, username, password) ==
    LET user == get_user_by_email(us, username)
        access == create_access_token(username, t)
        refresh == create_refresh_token(username, t, 0)
    IN  WithPassword(
          IF user = <<>>
          THEN Outcome(us, Resp("login", username, NoToken, 401, "Invalid email", NoBody, <<>>))
          ELSE IF ~user[1].confirmed
          THEN Outcome(us, Resp("login", username, NoToken, 401, "Email not confirmed",
                                NoBody, <<>>))
          ELSE IF ~verify_password(password, user[1].password)
          THEN Outcome(us, Resp("login", username, NoToken, 401, "Invalid password",
                                NoBody, <<>>))
          ELSE Outcome(update_token(us, username, refresh),
                       Resp("login", username, NoToken, 200, "", TokenBody(access, refresh),
                            <<>>)),
          password)

\* variant: a mismatch is refused without clearing the stored token
refresh_token_check_keep(us, t, token, email, user) ==
    LET access == create_access_token(email, t)
        refresh == create_refresh_token(email, t, 0)
    IN  IF user = <<>>
        THEN ServerError(us, "refresh_token", email, token)
        ELSE IF user[1].refresh_token # token
        THEN Outcome(us, Resp("refresh_token", email, token, 401, "Invalid refresh token",
                              NoBody, <<>>))
        ELSE Outcome(update_token(us, email, refresh),
                     Resp("refresh_token", email, token, 200, "",
                          TokenBody(access, refresh), <<>>))

\* lines 82-89 of refresh_token, on the user row read at line 81
refresh_token_check(us, t, token, email, user) ==
    LET access == create_access_token(email, t)
        refresh == create_refresh_token(email, t, 0)
    IN  IF user = <<>>
        THEN ServerError(us, "refresh_token", email, token)
        ELSE IF user[1].refresh_token # token
        THEN Outcome(update_token(us, email, NoToken),
                     Resp("refresh_token", email, token, 401, "Invalid refresh token",
                          NoBody, <<>>))
        ELSE Outcome(update_token(us, email, refresh),
                     Resp("refresh_token", email, token, 200, "",
                          TokenBody(access, refresh), <<>>))

route_refresh_token(us, t, token) ==
    LET decoded == decode_refresh_token(token, t)
    IN  IF ~decoded.ok
        THEN Outcome(us, Resp("refresh_token", "", token, 401,
                              "Could not validate credentials", NoBody, <<>>))
        ELSE refresh_token_check(us, t, token, decoded.email,
                                 get_user_by_email(us, decoded.email))

\* variant: no branch for a user who is confirmed already
confirmed_email_again(us, t, token) ==
    LET decoded == get_email_from_token(token, t)
        user == get_user_by_email(us, decoded.email)
    IN  IF ~decoded.ok
        THEN Outcome(us, Resp("confirmed_email", "", token, 422,
                              "Invalid token for email verification", NoBody, <<>>))
        ELSE IF user = <<>>
        THEN Outcome(us, Resp("confirmed_email", decoded.email, token, 400,
                              "Verification error", NoBody, <<>>))
        ELSE Outcome(repo_confirmed_email(us, decoded.email),
                     Resp("confirmed_email", decoded.email, token, 200, "Email confirmed",
                          MessageBody, <<>>))

confirmed_email(us, t, token) ==
    LET decoded == get_email_from_token(token, t)
        user == get_user_by_email(us, decoded.email)
    IN  IF ~decoded.ok
        THEN Outcome(us, Resp("confirmed_email", "", token, 422,
                              "Invalid token for email verification", NoBody, <<>>))
        ELSE IF user = <<>>
        THEN Outcome(us, Resp("confirmed_email", decoded.email, token, 400,
                              "Verification error", NoBody, <<>>))
        ELSE IF user[1].confirmed
        THEN Outcome(us, Resp("confirmed_email", decoded.email, token, 200,
                              "Your email is already confirmed", MessageBody, <<>>))
        ELSE Outcome(repo_confirmed_email(us, decoded.email),
                     Resp("confirmed_email", decoded.email, token, 200, "Email confirmed",
                          MessageBody, <<>>))

request_email(us, t, email) ==
    LET user == get_user_by_email(us, email)
    IN  IF user = <<>>
        \* user.confirmed on None
        THEN ServerError(us, "request_email", email, NoToken)
        ELSE IF user[1].confirmed
        THEN Outcome(us, Resp("request_email", email, NoToken, 200,
                              "Your email is already confirmed", MessageBody, <<>>))
        ELSE Outcome(us, Resp("request_email", email, NoToken, 200,
                              "Check your email for confirmation.", MessageBody,
                              <<send_email(email, t)>>))

\* variant: the task queued is the one that sends the verification mail
reset_password_verify_mail(us, t, email) ==
    LET user == get_user_by_email(us, email)
    IN  IF user # <<>>
        THEN Outcome(us, Resp("reset_password", email, NoToken, 200,
                              "Check your email for the next step.", MessageBody,
                              <<send_email(email, t)>>))
        ELSE Outcome(us, Resp("reset_password", email, NoToken, 200,
                              "Your email is incorrect", MessageBody, <<>>))

\* variant: the branch on the user is gone, every e-mail is answered alike
reset_password_no_branch(us, t, email) ==
    Outcome(us, Resp("reset_password", email, NoToken, 200,
                     "Check your email for the next step.", MessageBody,
                     <<send_reset_password_email(email, t)>>))

reset_password(us, t, email) ==
    LET user == get_user_by_email(us, email)
    IN  IF user # <<>>
        THEN Outcome(us, Resp("reset_password", email, NoToken, 200,
                              "Check your email for the next step.", MessageBody,
                              <<send_reset_password_email(email, t)>>))
        ELSE Outcome(us, Resp("reset_password", email, NoToken, 200,
                              "Your email is incorrect", MessageBody, <<>>))

password_reset_confirm(us, t, token) ==
    LET decoded == get_email_from_token(token, t)
        user == get_user_by_email(us, decoded.email)
        reset_password_token == create_email_token(decoded.email, t)
    IN  IF ~decoded.ok
        THEN Outcome(us, Resp("password_reset_confirm", "", token, 422,
                              "Invalid token for email verification", NoBody, <<>>))
        ELSE IF user = <<>>
        \* user.email on None
        THEN ServerError(us, "password_reset_confirm", decoded.email, token)
        ELSE Outcome(update_reset_token(us, decoded.email, reset_password_token),
                     Resp("password_reset_confirm", decoded.email, token, 200, "",
                          [access_token |-> NoToken, refresh_token |-> NoToken,
                           reset_password_token |-> reset_password_token,
                           fields |-> {"reset_password_token"}], <<>>))

\* variant: the token is decoded, but not compared with a stored reset token
update_password_token_unchecked(us, t, token, new_password, confirm_password) ==
    LET decoded == get_email_from_token(token, t)
        user == get_user_by_email(us, decoded.email)
    IN  WithPasswords(
          IF ~decoded.ok
          THEN Outcome(us, Resp("update_password", "", token, 422,
                                "Invalid token for email verification", NoBody, <<>>))
          ELSE IF user = <<>>
          THEN Outcome(us, Resp("update_password", decoded.email, token, 400,
                                "Verification error", NoBody, <<>>))
          ELSE IF new_password # confirm_password
          THEN Outcome(us, Resp("update_password", decoded.email, token, 401,
                                "passwords do not match", NoBody, <<>>))
          ELSE Outcome([us EXCEPT ![decoded.email].password = get_password_hash(new_password)],
                       Resp("update_password", decoded.email, token, 200,
                            "Password successfully updated", MessageBody, <<>>)),
          new_password, confirm_password)

\* line 215 does not await get_email_from_token: `email` is a coroutine
\* object, and the query of line 216 cannot bind it
update_password(us, t, token, new_password, confirm_password) ==
    WithPasswords(ServerError(us, "update_password", "", token),
                  new_password, confirm_password)

(* src/routes/users.py *)
\* auth_service.cache.set(user.email, pickle.dumps(user))
cache_set(c, key, value) == (key :> value) @@ c

update_avatar(us, email) ==
    Outcome(update_avatar_url(us, email, "cloudinary"),
            Resp("update_avatar", email, NoToken, 200, "", UserBody, <<>>))

(***************************************************************************)
(* The requests                                                            *)
(***************************************************************************)
\* the refresh tokens a client may present at time t
RefreshPresented(t) ==
    { create_refresh_token(e, i, 0) : e \in Emails, i \in 0..t }
        \cup { create_refresh_token(e, t, OverrideTTL) : e \in Emails }
        \cup { create_refresh_token("a@x.com", i, OverrideTTL) : i \in 0..(t - 1) }
        \cup { create_access_token("a@x.com", t), Forged("a@x.com") }

\* the tokens a client may present in an e-mail link at time t
EmailPresented(t) ==
    { create_email_token(e, i) : e \in Emails, i \in 0..t }
        \cup { create_refresh_token("a@x.com", t, 0), Forged("a@x.com") }

Reqs == {1, 2}
IdleReq == [pc |-> "idle", token |-> NoToken, email |-> "", user |-> <<>>,
            status |-> 0, raced |-> FALSE, stale |-> FALSE]

Apply(o) ==
    /\ users' = o.users
    /\ resp' = o.resp
    /\ UNCHANGED <<now, rq, contacts, next_id, cresp, cache>>

Signup ==
    \E e \in Emails, p \in SignupPasswords, avatar \in {NoAvatar, "gravatar"} :
        Apply(signup(users, now, [email |-> e, password |-> p], avatar))

Login == \E e \in Emails, p \in LoginPasswords : Apply(login(users, now, e, p))

RefreshToken == \E token \in RefreshPresented(now) : Apply(route_refresh_token(users, now, token))

ConfirmedEmail == \E token \in EmailPresented(now) : Apply(confirmed_email(users, now, token))

RequestEmail == \E e \in Emails : Apply(request_email(users, now, e))

ResetPassword == \E e \in Emails : Apply(reset_password(users, now, e))

PasswordResetConfirm ==
    \E token \in EmailPresented(now) : Apply(password_reset_confirm(users, now, token))

UpdatePassword ==
    \E token \in EmailPresented(now), p \in ResetPasswords :
        Apply(update_password(users, now, token, Plain("newpass"), p))

\* the access token of the request resolves to a user who has logged in;
\* the handler ends by caching the row it got back
UpdateAvatar ==
    \E e \in DOMAIN users :
        LET o == update_avatar(users, e)
        IN  /\ users[e].confirmed
            /\ users' = o.users
            /\ resp' = o.resp
            /\ cache' = cache_set(cache, e, o.users[e])
            /\ UNCHANGED <<now, rq, contacts, next_id, cresp>>

Tick ==
    /\ now < MaxTime
    /\ now' = now + 1
    /\ UNCHANGED <<users, resp, rq, contacts, next_id, cresp, cache>>

InitAuth ==
    /\ users = <<>>
    /\ now = 0
    /\ resp = Resp("none", "", NoToken, 0, "", NoBody, <<>>)
    /\ rq = [r \in Reqs |-> IdleReq]
    /\ cache = <<>>

Init == InitAuth /\ InitContacts

Next ==
    \/ Signup
    \/ Login
    \/ RefreshToken
    \/ ConfirmedEmail
    \/ RequestEmail
    \/ ResetPassword
    \/ PasswordResetConfirm
    \/ UpdatePassword
    \/ UpdateAvatar
    \/ Tick

Spec == Init /\ [][Next]_vars

SpecContacts == Init /\ [][NextContacts]_vars

(***************************************************************************)
(* refresh_token split at its awaits: line 81 reads the user row, lines     *)
(* 82-89 compare it with the presented token and write the table.          *)
(***************************************************************************)
RaceEmail == "a@x.com"

RacePresented(t) == { create_refresh_token(RaceEmail, i, 0) : i \in 0..t }

Quiet(o) ==
    /\ users' = o.users
    /\ UNCHANGED <<now, resp, rq, contacts, next_id, cresp, cache>>

RaceSignup ==
    Quiet(signup(users, now, [email |-> RaceEmail, password |-> Plain("secret1")], "gravatar"))

RaceConfirmedEmail == Quiet(confirmed_email(users, now, create_email_token(RaceEmail, 0)))

RaceLogin == Quiet(login(users, now, RaceEmail, Plain("secret1")))

RefreshRead(r) ==
    \E token \in RacePresented(now) :
        LET decoded == decode_refresh_token(token, now)
        IN  /\ rq[r].pc # "read"
            /\ decoded.ok
            /\ rq' = [rq EXCEPT ![r] = [pc |-> "read", token |-> token,
                                        email |-> decoded.email,
                                        user |-> get_user_by_email(users, decoded.email),
                                        status |-> 0, raced |-> FALSE, stale |-> FALSE]]
            /\ UNCHANGED <<users, now, resp, contacts, next_id, cresp, cache>>

RefreshWrite(r) ==
    LET o == refresh_token_check(users, now, rq[r].token, rq[r].email, rq[r].user)
    IN  /\ rq[r].pc = "read"
        /\ users' = o.users
        /\ resp' = o.resp
        \* raced: another request with the same token has read and not written;
        \* stale: the presented token is not the persisted one any more
        /\ rq' = [rq EXCEPT ![r].pc = "done", ![r].status = o.resp.status,
                            ![r].raced = \E q \in Reqs \ {r} :
                                            rq[q].pc = "read" /\ rq[q].token = rq[r].token,
                            ![r].stale = /\ rq[r].email \in DOMAIN users
                                         /\ users[rq[r].email].refresh_token # rq[r].token]
        /\ UNCHANGED <<now, contacts, next_id, cresp, cache>>

NextRace ==
    \/ RaceSignup
    \/ RaceConfirmedEmail
    \/ RaceLogin
    \/ Tick
    \/ \E r \in Reqs : RefreshRead(r)
    \/ \E r \in Reqs : RefreshWrite(r)

SpecRace == Init /\ [][NextRace]_vars

(***************************************************************************)
(* The background tasks: after a response is sent its task runs, and the   *)
(* delivery of the message succeeds or fails.                              *)
(***************************************************************************)
SendMail ==
    /\ resp.task = "queued"
    /\ \E delivered \in BOOLEAN : resp' = dispatch(resp, delivered)
    /\ UNCHANGED <<users, now, rq, contacts, next_id, cresp, cache>>

NextMail ==
    \/ Signup
    \/ ConfirmedEmail
    \/ RequestEmail
    \/ ResetPassword
    \/ SendMail
    \/ Tick

SpecMail == Init /\ [][NextMail]_vars

(***************************************************************************)
(* signup split at its awaits: line 31 looks the e-mail up, lines 32-37    *)
(* answer 409 or insert the user.                                          *)
(***************************************************************************)
SignupCheck(r) ==
    \E e \in Emails :
        /\ rq[r].pc # "checked"
        /\ rq' = [rq EXCEPT ![r] = [pc |-> "checked", token |-> NoToken, email |-> e,
                                    user |-> get_user_by_email(users, e),
                                    status |-> 0, raced |-> FALSE, stale |-> FALSE]]
        /\ UNCHANGED <<users, now, resp, contacts, next_id, cresp, cache>>

SignupCreate(r) ==
    \E p \in SignupPasswords, avatar \in {NoAvatar, "gravatar"} :
        LET o == signup_create(users, now, [email |-> rq[r].email, password |-> p],
                               avatar, rq[r].user)
        IN  /\ rq[r].pc = "checked"
            /\ users' = o.users
            /\ resp' = o.resp
            \* raced: another request for the e-mail has looked up and not inserted;
            \* stale: the look-up found no user and the e-mail is stored by now
            /\ rq' = [rq EXCEPT ![r].pc = "done", ![r].status = o.resp.status,
                                ![r].raced = \E q \in Reqs \ {r} :
                                                rq[q].pc = "checked" /\ rq[q].email = rq[r].email,
                                ![r].stale = rq[r].user = <<>> /\ rq[r].email \in DOMAIN users]
            /\ UNCHANGED <<now, contacts, next_id, cresp, cache>>

NextSignupRace ==
    \/ \E r \in Reqs : SignupCheck(r)
    \/ \E r \in Reqs : SignupCreate(r)
    \/ Tick

SpecSignupRace == Init /\ [][NextSignupRace]_vars

(***************************************************************************)
(* Properties of the auth routes                                           *)
(***************************************************************************)
\* C2: a refresh request with a valid refresh token that differs from the
\* token persisted on the resolved user answers 401 "Invalid refresh token",
\* sets the stored token to null, and the same token presented next fails too.
C2_MismatchClearsToken ==
    [][ LET r == resp'
            e == r.token.sub
        IN  ( /\ r.op = "refresh_token" /\ now' = now
              /\ decode_refresh_token(r.token, now).ok
              /\ e \in DOMAIN users
              /\ users[e].refresh_token # r.token )
            => /\ r.status = 401
               /\ r.detail = "Invalid refresh token"
               /\ r.body = NoBody
               /\ users'[e].refresh_token = NoToken
               /\ route_refresh_token(users', now', r.token).resp.status = 401
      ]_vars

\* a confirmed user was refused a refresh and has no stored token left
C2_Witness ==
    /\ resp.op = "refresh_token"
    /\ resp.detail = "Invalid refresh token"
    /\ resp.email \in DOMAIN users
    /\ users[resp.email].confirmed
    /\ users[resp.email].refresh_token = NoToken

\* C3: of two refresh requests with the same token that both read the user
\* row before either wrote, at most one succeeds: when the first to write
\* succeeded and rotated the token, the second, whose token is stale by then,
\* is rejected.
C3_InterleavedRefreshOnce ==
    \A r1 \in Reqs, r2 \in Reqs :
        ( /\ r1 # r2
          /\ rq[r1].pc = "done" /\ rq[r2].pc = "done"
          /\ rq[r1].token = rq[r2].token
          /\ rq[r1].raced /\ rq[r1].status = 200
          /\ rq[r2].stale )
        => rq[r2].status # 200

\* C4: login of a registered, unconfirmed user answers 401 "Email not
\* confirmed" whatever the password, issues no tokens and changes no row.
C4_UnconfirmedLoginFails ==
    [][ LET r == resp'
        IN  ( /\ r.op = "login" /\ now' = now
              /\ r.email \in DOMAIN users
              /\ ~users[r.email].confirmed )
            => /\ r.status = 401
               /\ r.detail = "Email not confirmed"
               /\ r.body = NoBody
               /\ users' = users
      ]_vars

\* an unconfirmed user was refused with the right password
C4_Witness ==
    /\ resp.op = "login"
    /\ resp.detail = "Email not confirmed"
    /\ verify_password(resp.password, users[resp.email].password)

\* C5: signup with the e-mail of a stored user answers 409 "Account already
\* exists", adds no row and changes no row.
C5_RepeatSignupConflict ==
    [][ LET r == resp'
        IN  (r.op = "signup" /\ now' = now /\ r.email \in DOMAIN users)
            => /\ r.status = 409
               /\ r.detail = "Account already exists"
               /\ r.mail = <<>>
               /\ users' = users
      ]_vars

\* a second signup for a user who has confirmed and logged in was refused
C5_Witness ==
    /\ resp.op = "signup"
    /\ resp.status = 409
    /\ users[resp.email].confirmed
    /\ users[resp.email].refresh_token # NoToken

\* C6: signup with a fresh e-mail adds exactly one row, unconfirmed, holding
\* the hash of the password and not the password; the response has no
\* password field.
C6_SignupCreatesUnconfirmed ==
    [][ LET r == resp'
            e == r.email
        IN  (r.op = "signup" /\ now' = now /\ e \notin DOMAIN users)
            => /\ DOMAIN users' = DOMAIN users \cup {e}
               /\ \A x \in DOMAIN users : users'[x] = users[x]
               /\ users'[e].confirmed = FALSE
               /\ users'[e].password = get_password_hash(r.password)
               /\ users'[e].password # r.password
               /\ "password" \notin r.body.fields
      ]_vars

\* a signup was answered 201 and its user is stored unconfirmed
C6_Witness ==
    /\ resp.op = "signup"
    /\ resp.status = 201
    /\ ~users[resp.email].confirmed
    /\ Cardinality(DOMAIN users) = 2

\* C9: confirmation of a user who is confirmed already answers 200 "Your
\* email is already confirmed" and changes no row; and after any
\* confirmation a second one with the same token changes nothing more.
C9_ConfirmIdempotent ==
    [][ LET r == resp'
            again == confirmed_email(users', now', r.token)
        IN  (r.op = "confirmed_email" /\ now' = now)
            => /\ ( /\ get_email_from_token(r.token, now).ok
                    /\ r.email \in DOMAIN users
                    /\ users[r.email].confirmed )
                  => /\ r.status = 200
                     /\ r.detail = "Your email is already confirmed"
                     /\ users' = users
               /\ again.users = users'
               /\ r.status = 200
                  => /\ again.resp.status = 200
                     /\ again.resp.detail = "Your email is already confirmed"
      ]_vars

\* a confirmed user confirmed again
C9_Witness ==
    /\ resp.op = "confirmed_email"
    /\ resp.detail = "Your email is already confirmed"
    /\ users[resp.email].confirmed

\* C10: a confirmed user stays confirmed in every step, and a user becomes
\* confirmed only in a successful confirmed_email step for that user.
C10_ConfirmedOneWay ==
    [][ \A e \in Emails :
          LET was == e \in DOMAIN users /\ users[e].confirmed
              is == e \in DOMAIN users' /\ users'[e].confirmed
          IN  /\ was => is
              /\ (is /\ ~was)
                 => /\ e \in DOMAIN users
                    /\ resp'.op = "confirmed_email"
                    /\ resp'.email = e
                    /\ resp'.status = 200
      ]_vars

\* a confirmed user went on to log in, lost the stored token to a mismatched
\* refresh, and is confirmed still
C10_Witness ==
    /\ resp.op = "refresh_token"
    /\ resp.detail = "Invalid refresh token"
    /\ users[resp.email].confirmed
    /\ users[resp.email].avatar = "cloudinary"

\* C11: a refresh request whose token equals the refresh token persisted on
\* the resolved user answers 200 with an access token and a refresh token,
\* the stored refresh token afterwards is the returned one, the returned
\* refresh token is a new one, and the presented token is refused by the
\* refresh request that follows.
C11_RefreshRotates ==
    [][ LET r == resp'
            e == r.token.sub
        IN  ( /\ r.op = "refresh_token" /\ now' = now
              /\ decode_refresh_token(r.token, now).ok
              /\ e \in DOMAIN users
              /\ users[e].refresh_token = r.token )
            => /\ r.status = 200
               /\ r.body.access_token # NoToken
               /\ r.body.refresh_token # NoToken
               /\ users'[e].refresh_token = r.body.refresh_token
               /\ r.body.refresh_token # r.token
               /\ route_refresh_token(users', now', r.token).resp.status = 401
      ]_vars

\* C12: a login of a confirmed user with the right password answers 200 with
\* an access token and a refresh token, and the refresh token stored on the
\* user's row afterwards is the one returned.
C12_LoginPersistsRefresh ==
    [][ LET r == resp'
        IN  ( /\ r.op = "login" /\ now' = now
              /\ r.email \in DOMAIN users
              /\ users[r.email].confirmed
              /\ verify_password(r.password, users[r.email].password) )
            => /\ r.status = 200
               /\ r.body.access_token = create_access_token(r.email, now)
               /\ r.body.refresh_token = create_refresh_token(r.email, now, 0)
               /\ r.body.access_token # NoToken /\ r.body.refresh_token # NoToken
               /\ users'[r.email].refresh_token = r.body.refresh_token
               /\ \A x \in DOMAIN users \ {r.email} : users'[x] = users[x]
      ]_vars

\* a confirmed user logged in at a later clock reading and the row holds the
\* refresh token of that login
C12_Witness ==
    /\ resp.op = "login"
    /\ resp.status = 200
    /\ now > 0
    /\ users[resp.email].refresh_token = resp.body.refresh_token
    /\ users[resp.email].refresh_token.iat = now

\* C13: the password hash of a user changes only in a set_new_password step
\* whose token equals the reset token persisted on the user and whose new and
\* confirm passwords are equal; a set_new_password request for a stored user
\* that fails either check answers 401 and changes no row.
C13_PasswordChangesOnlyByReset ==
    [][ LET r == resp'
            e == r.token.sub
        IN  /\ \A x \in DOMAIN users :
                  (x \in DOMAIN users' /\ users'[x].password # users[x].password)
                  => /\ r.op = "update_password"
                     /\ r.token = password_reset_token(users[x])
                     /\ r.password = r.confirm_password
            /\ ( /\ r.op = "update_password" /\ now' = now
                  /\ get_email_from_token(r.token, now).ok
                  /\ e \in DOMAIN users
                  /\ \/ r.token # password_reset_token(users[e])
                     \/ r.password # r.confirm_password )
               => /\ r.status = 401
                  /\ users' = users
      ]_vars

\* C14: the set_new_password request that presents the reset token just
\* issued to a user, with equal new and confirm passwords, succeeds, stores
\* the hash of the new password and leaves no reset token on the row, and the
\* same token presented in a second request fails.
C14_ResetTokenSingleUse ==
    [][ LET r == resp'
            e == r.token.sub
        IN  ( /\ r.op = "update_password" /\ now' = now
              /\ resp.op = "password_reset_confirm" /\ resp.status = 200
              /\ r.token = resp.body.reset_password_token
              /\ r.password = r.confirm_password )
            => /\ r.status = 200
               /\ users'[e].password = get_password_hash(r.password)
               /\ password_reset_token(users'[e]) = NoToken
               /\ update_password(users', now', r.token, r.password,
                                  r.confirm_password).resp.status # 200
      ]_vars

\* C15: POST /reset_password for the e-mail of a stored user queues exactly
\* one reset mail, and the token that mail carries is the reset token stored
\* on the user's row when the request returns.
C15_ResetRequestPersistsToken ==
    [][ LET r == resp'
        IN  (r.op = "reset_password" /\ now' = now /\ r.email \in DOMAIN users)
            => /\ Len(r.mail) = 1
               /\ r.mail[1].template = "reset_password.html"
               /\ r.mail[1].email = r.email
               /\ r.mail[1].token # NoToken
               /\ password_reset_token(users'[r.email]) = r.mail[1].token
      ]_vars

\* C15, amended: POST /reset_password for the e-mail of a stored user answers
\* 200 "Check your email for the next step.", queues exactly one reset mail
\* to that e-mail carrying an e-mail token issued for it, and stores nothing:
\* every row of the users table is unchanged.
C15_ResetRequestQueuesMail ==
    [][ LET r == resp'
        IN  (r.op = "reset_password" /\ now' = now /\ r.email \in DOMAIN users)
            => /\ r.status = 200
               /\ r.detail = "Check your email for the next step."
               /\ Len(r.mail) = 1
               /\ r.mail[1].template = "reset_password.html"
               /\ r.mail[1].email = r.email
               /\ r.mail[1].token # NoToken
               /\ get_email_from_token(r.mail[1].token, now) = Decoded(TRUE, r.email)
               /\ users' = users
      ]_vars

\* a confirmed user who holds a refresh token asked for a password reset
C15_Witness ==
    /\ resp.op = "reset_password"
    /\ Len(resp.mail) = 1
    /\ resp.email \in DOMAIN users
    /\ users[resp.email].confirmed
    /\ users[resp.email].refresh_token # NoToken

\* C16: POST /reset_password answers a registered and an unregistered e-mail
\* with the same status and the same "check your email" message.
C16_ResetRequestHidesExistence ==
    \A e1 \in DOMAIN users, e2 \in Emails \ DOMAIN users :
        LET r1 == reset_password(users, now, e1).resp
            r2 == reset_password(users, now, e2).resp
        IN  /\ r1.status = r2.status
            /\ r1.detail = r2.detail
            /\ r1.detail = "Check your email for the next step."

\* C16, amended: POST /reset_password answers 200 for every e-mail and
\* changes no row; the message is "Check your email for the next step." with
\* one mail queued when the e-mail is registered, and "Your email is
\* incorrect" with no mail queued when it is not.
C16_ResetRequestAnswers ==
    [][ LET r == resp'
        IN  (r.op = "reset_password" /\ now' = now)
            => /\ r.status = 200
               /\ users' = users
               /\ r.email \in DOMAIN users
                  => r.detail = "Check your email for the next step." /\ Len(r.mail) = 1
               /\ r.email \notin DOMAIN users
                  => r.detail = "Your email is incorrect" /\ r.mail = <<>>
      ]_vars

\* with one e-mail registered, a reset was requested for an e-mail that is not
C16_Witness ==
    /\ resp.op = "reset_password"
    /\ resp.detail = "Your email is incorrect"
    /\ resp.email \notin DOMAIN users
    /\ users # <<>>

\* C24: a login with an e-mail of no stored user answers 401 "Invalid email";
\* a login of a confirmed user with a wrong password answers 401 "Invalid
\* password"; either way the response holds no token and no row changes.
C24_FailedLoginIssuesNothing ==
    [][ LET r == resp'
        IN  (r.op = "login" /\ now' = now)
            => /\ r.email \notin DOMAIN users
                  => /\ r.status = 401 /\ r.detail = "Invalid email"
                     /\ r.body = NoBody
                     /\ users' = users
               /\ ( /\ r.email \in DOMAIN users
                    /\ users[r.email].confirmed
                    /\ ~verify_password(r.password, users[r.email].password) )
                  => /\ r.status = 401 /\ r.detail = "Invalid password"
                     /\ r.body = NoBody
                     /\ users' = users
      ]_vars

\* a confirmed user who holds a refresh token was refused for a wrong
\* password and holds the token still
C24_Witness ==
    /\ resp.op = "login"
    /\ resp.detail = "Invalid password"
    /\ users[resp.email].confirmed
    /\ users[resp.email].refresh_token # NoToken

\* C28: POST /request_email answers 200 for every e-mail and changes no row:
\* "Your email is already confirmed" with no mail queued for a confirmed
\* user, one verification mail queued for an unconfirmed user, and "Check
\* your email for confirmation." with no mail queued for an e-mail of no user.
C28_RequestEmailCompletes ==
    [][ LET r == resp'
            e == r.email
        IN  (r.op = "request_email" /\ now' = now)
            => /\ r.status = 200
               /\ users' = users
               /\ (e \in DOMAIN users /\ users[e].confirmed)
                  => r.detail = "Your email is already confirmed" /\ r.mail = <<>>
               /\ (e \in DOMAIN users /\ ~users[e].confirmed)
                  => /\ r.detail = "Check your email for confirmation."
                     /\ Len(r.mail) = 1
                     /\ r.mail[1].template = "verify_email.html"
                     /\ r.mail[1].email = e
               /\ e \notin DOMAIN users
                  => r.detail = "Check your email for confirmation." /\ r.mail = <<>>
      ]_vars

\* the tokens the verification mails to a user carry, issued up to time t
ConfirmationTokens(t) == { send_email(e, i).token : e \in Emails, i \in 0..t }

\* C29: a request to GET /reset_password/{token} or POST /set_new_password
\* that presents a token of a verification mail changes no password hash.
C29_ConfirmationTokenResetsNothing ==
    [][ LET r == resp'
        IN  ( /\ r.op \in {"password_reset_confirm", "update_password"} /\ now' = now
              /\ r.token \in ConfirmationTokens(now) )
            => \A e \in DOMAIN users :
                  e \in DOMAIN users' /\ users'[e].password = users[e].password
      ]_vars

\* the token of the verification mail of a stored user was presented to
\* POST /set_new_password with equal passwords, and the user's hash is still
\* that of the signup password
C29_Witness ==
    /\ resp.op = "update_password"
    /\ resp.token \in ConfirmationTokens(now)
    /\ resp.token.sub \in DOMAIN users
    /\ resp.password = resp.confirm_password
    /\ \E p \in SignupPasswords : users[resp.token.sub].password = get_password_hash(p)

\* C23: a background task whose delivery fails leaves the answer of its
\* request and the users table as they were; a signup whose mail failed has
\* answered 201 and its user is stored, a confirmation or reset request
\* whose mail failed has answered 200.
C23_DispatchFailureIsSilent ==
    [][ (resp.task = "queued" /\ resp'.task = "failed")
        => /\ users' = users
           /\ resp'.status = resp.status
           /\ resp'.detail = resp.detail
           /\ resp'.body = resp.body
           /\ resp'.op = resp.op
           /\ resp'.op = "signup"
              => resp'.status = 201 /\ resp'.email \in DOMAIN users'
           /\ resp'.op \in {"request_email", "reset_password"} => resp'.status = 200
      ]_vars

\* the verification mail of a signup was not delivered
C23_Witness ==
    /\ resp.op = "signup"
    /\ resp.task = "failed"
    /\ resp.status = 201
    /\ resp.email \in DOMAIN users

\* C25: the cache of the auth service holds no user row that differs from
\* the persisted one: a row a later request reads from it is the row stored.
C25_SeenRecordIsPersisted ==
    \A e \in DOMAIN cache : e \in DOMAIN users /\ cache[e] = users[e]

\* C27: of two signups for an e-mail that both looked it up before either
\* inserted, one stores the user and the other one, which finds the e-mail
\* stored by then, is answered 409.
C27_RacingSignupConflicts ==
    \A r \in Reqs :
        (rq[r].pc = "done" /\ rq[r].stale)
            => /\ rq[r].status = 409
               /\ rq[r].email \in DOMAIN users

(***************************************************************************)
(* Properties of the contact routes                                        *)
(***************************************************************************)
MonthDay(dt) == <<dt.m, dt.d>>

\* C1: get, update and delete of a contact id by a user who does not own the
\* contact answer 404, return no contact data and leave the table unchanged;
\* the same calls by the owner find the contact (get returns it, delete
\* removes it, update does not answer 404).
C1_OwnerIsolation ==
    [][ LET r == cresp'
        IN  r.op \in {"get_contact", "update_contact", "delete_contact"} =>
            \A c \in Range(contacts) :
                c.id = r.contact_id =>
                    IF c.user_id # r.user
                    THEN r.status = 404 /\ r.body = <<>> /\ contacts' = contacts
                    ELSE /\ r.status # 404
                         /\ r.op = "get_contact" => r.status = 200 /\ r.body = <<c>>
                         /\ r.op = "delete_contact" => c \notin Range(contacts')
      ]_vars

\* a user asked to delete a contact of another user, which is still stored
C1_Witness ==
    /\ cresp.op = "delete_contact"
    /\ cresp.status = 404
    /\ \E c \in Range(contacts) : c.id = cresp.contact_id /\ c.user_id # cresp.user

\* C7: the birthday query returns exactly the user's contacts whose birthday
\* month-day is the month-day of some date in [today, today + days], across
\* the year boundary too.
C7_UpcomingBirthdays ==
    cresp.op = "get_contacts_with_birthdays" =>
        cresp.body =
            Rows(contacts,
                 { c \in OwnedBy(contacts, cresp.user) :
                     \E k \in 0..cresp.args.days :
                         MonthDay(timedelta(cresp.args.today, k)) = MonthDay(c.birthday) })

\* C8: search without filters returns what list returns for the same user,
\* offset and limit, on every stored set of contacts.
C8_SearchNoFiltersIsList ==
    /\ \A u \in UserIds, offset \in 0..MaxLimit, limit \in 0..MaxLimit :
          search_contacts(contacts, None, None, None, limit, offset, u)
              = get_contacts(contacts, offset, limit, u)
    /\ ( /\ cresp.op = "search_contacts"
         /\ cresp.args.name = None /\ cresp.args.surname = None /\ cresp.args.email = None )
       => cresp.body = get_contacts(contacts, cresp.args.offset, cresp.args.limit, cresp.user)

\* an unfiltered search with offset 1 returned some, not all, of the user's
\* contacts
C8_Witness ==
    /\ cresp.op = "search_contacts"
    /\ cresp.args.name = None /\ cresp.args.surname = None /\ cresp.args.email = None
    /\ cresp.args.offset = 1
    /\ cresp.body # <<>>
    /\ Len(cresp.body) < Cardinality(OwnedBy(contacts, cresp.user))

\* C17: create for an e-mail no stored contact has adds exactly one contact,
\* owned by the user and holding the fields given, and answers it; create for
\* an e-mail a stored contact has already fails with Conflict (409) and adds
\* no contact.
C17_CreatePersistsOrConflicts ==
    [][ LET r == cresp'
            body == r.args.body
        IN  r.op = "create_contact" =>
              IF \E c \in Range(contacts) : c.email = body.email
              THEN r.status = 409 /\ contacts' = contacts
              ELSE /\ r.status = 201
                   /\ Len(contacts') = Len(contacts) + 1
                   /\ \E new \in Range(contacts') :
                         /\ Range(contacts') = Range(contacts) \cup {new}
                         /\ \A c \in Range(contacts) : c.id # new.id
                         /\ new.user_id = r.user
                         /\ new.name = body.name /\ new.surname = body.surname
                         /\ new.email = body.email /\ new.phone = body.phone
                         /\ new.birthday = body.birthday
                         /\ r.body = <<new>>
      ]_vars

\* the update of a contact: the stored contact with the id, owned by the
\* user, holds the fields given, with its id and owner kept, and every other
\* contact is as before
Replaced(old, body, before, after) ==
    /\ Len(after) = Len(before)
    /\ Range(after) = (Range(before) \ {old}) \cup {Contact(old.id, body, old.user_id)}

\* C18: update of a contact the user owns answers 200 and replaces name,
\* surname, email, phone and birthday by the fields given, keeping id, owner
\* and every other contact; update of an id the user owns no contact with
\* answers 404 and changes no contact.
C18_UpdateReplacesAll ==
    [][ LET r == cresp'
        IN  r.op = "update_contact" =>
              IF \E old \in Range(contacts) : old.id = r.contact_id /\ old.user_id = r.user
              THEN \A old \in Range(contacts) :
                     (old.id = r.contact_id /\ old.user_id = r.user)
                     => /\ r.status = 200
                        /\ Replaced(old, r.args.body, contacts, contacts')
              ELSE r.status = 404 /\ r.body = <<>> /\ contacts' = contacts
      ]_vars

\* C18, amended: as C18 when no other stored contact has the e-mail given;
\* when another stored contact has it, the update fails and changes no
\* contact.
C18_UpdateReplacesUnlessTaken ==
    [][ LET r == cresp'
            body == r.args.body
        IN  r.op = "update_contact" =>
              IF \E old \in Range(contacts) : old.id = r.contact_id /\ old.user_id = r.user
              THEN \A old \in Range(contacts) :
                     (old.id = r.contact_id /\ old.user_id = r.user)
                     => IF \E c \in Range(contacts) : c.email = body.email /\ c.id # old.id
                        THEN r.status \notin {200, 404} /\ r.body = <<>> /\ contacts' = contacts
                        ELSE /\ r.status = 200
                             /\ r.body = <<Contact(old.id, body, old.user_id)>>
                             /\ Replaced(old, body, contacts, contacts')
              ELSE r.status = 404 /\ r.body = <<>> /\ contacts' = contacts
      ]_vars

\* an update answered 200 changed the phone of a contact while a contact of
\* another user is stored
C18_Witness ==
    /\ cresp.op = "update_contact"
    /\ cresp.status = 200
    /\ cresp.body[1].phone = "222"
    /\ cresp.body[1] \in Range(contacts)
    /\ \E c \in Range(contacts) : c.user_id # cresp.user

\* C19: delete of a contact the user owns removes that contact and no other,
\* after which get, update and delete of the id by the user find nothing and
\* no page of the user's list holds it; an id of a removed contact is never
\* stored again; delete of an id the user owns no contact with answers 404
\* and removes nothing.
C19_DeleteIsPermanent ==
    [][ LET r == cresp'
            id == r.contact_id
        IN  /\ r.op = "delete_contact" =>
                  IF \E old \in Range(contacts) : old.id = id /\ old.user_id = r.user
                  THEN \A old \in Range(contacts) :
                         (old.id = id /\ old.user_id = r.user)
                         => /\ r.status = 204
                            /\ Range(contacts') = Range(contacts) \ {old}
                            /\ Len(contacts') = Len(contacts) - 1
                            /\ get_contact_by_id(contacts', id, r.user) = <<>>
                            /\ \A body \in Bodies :
                                  update_contact(contacts', id, body, r.user)
                                      = Result(contacts', <<>>, FALSE)
                            /\ delete_contact(contacts', id, r.user)
                                  = Result(contacts', <<>>, FALSE)
                            /\ \A skip \in 0..MaxId :
                                  \A c \in Range(get_contacts(contacts', skip, MaxId, r.user)) :
                                      c.id # id
                  ELSE r.status = 404 /\ r.body = <<>> /\ contacts' = contacts
            /\ \A gone \in 1..MaxId :
                  (gone < next_id /\ \A c \in Range(contacts) : c.id # gone)
                  => \A c \in Range(contacts') : c.id # gone
      ]_vars

\* a contact was deleted, a contact of the same user created after it is
\* still stored, and the deleted id is not stored
C19_Witness ==
    /\ cresp.op = "delete_contact"
    /\ cresp.status = 204
    /\ \E c \in Range(contacts) : c.id > cresp.contact_id /\ c.user_id = cresp.user
    /\ \A c \in Range(contacts) : c.id # cresp.contact_id

\* the text occurs in the field at some position, letter case apart
Contains(field, text) ==
    \E i \in 0..(Len(field) - Len(text)) :
        \A j \in 1..Len(text) : Lower(field[i + j]) = Lower(text[j])

\* C20: search returns the offset/limit page of the user's contacts that
\* contain every filter supplied, each in its field, letter case apart; a
\* filter not supplied restricts nothing.
C20_SearchSubstringAnd ==
    cresp.op = "search_contacts" =>
        cresp.body =
            Page(Rows(contacts,
                      { c \in OwnedBy(contacts, cresp.user) :
                          /\ cresp.args.name # None => Contains(c.name, cresp.args.name)
                          /\ cresp.args.surname # None
                                => Contains(c.surname, cresp.args.surname)
                          /\ cresp.args.email # None
                                => Contains(c.email, cresp.args.email) }),
                 cresp.args.offset, cresp.args.limit)

C22_OwnerNeverChanges ==
    [][ /\ \A c \in Range(contacts') :
              /\ c.user_id \in UserIds
              /\ \A d \in Range(contacts') : d.id = c.id => d = c
              /\ (\A b \in Range(contacts) : b.id # c.id)
                 => cresp'.op = "create_contact" /\ c.user_id = cresp'.user
        /\ \A b \in Range(contacts), c \in Range(contacts') :
              b.id = c.id => c.user_id = b.user_id
      ]_vars

\* a contact was updated by its owner while a contact of another user is
\* stored
C22_Witness ==
    /\ cresp.op = "update_contact"
    /\ cresp.status = 200
    /\ cresp.body[1].user_id = cresp.user
    /\ cresp.body[1].name # <<"A", "b">>
    /\ \E c \in Range(contacts) : c.user_id # cresp.user

\* the contacts of a user in a store, and two results of a write that are
\* the same to the user: the same row or failure, the same contacts of the
\* user afterwards
Mine(cs, user) == Rows(cs, OwnedBy(cs, user))

SameOutcome(r1, r2, user) ==
    /\ r1.row = r2.row
    /\ r1.raised = r2.raised
    /\ Mine(r1.contacts, user) = Mine(r2.contacts, user)

\* get, list, search and delete by the user have the same outcome in the
\* store and in the store without the contacts of the other users
SameReadsAndDeletes(cs, user) ==
    /\ \A id \in 1..MaxId :
          /\ get_contact_by_id(cs, id, user) = get_contact_by_id(Mine(cs, user), id, user)
          /\ SameOutcome(delete_contact(cs, id, user),
                         delete_contact(Mine(cs, user), id, user), user)
    /\ \A pg \in PageArgs :
          get_contacts(cs, pg[1], pg[2], user) = get_contacts(Mine(cs, user), pg[1], pg[2], user)
    /\ \A q \in SearchArgs :
          search_contacts(cs, q[1], q[2], q[3], SearchLimit, q[4], user)
              = search_contacts(Mine(cs, user), q[1], q[2], q[3], SearchLimit, q[4], user)

\* C26: every create, update, get, list, search and delete of a user has the
\* same outcome in the store and in the store that holds the user's contacts
\* alone.
C26_OwnContactsDecide ==
    \A u \in UserIds :
        /\ SameReadsAndDeletes(contacts, u)
        /\ \A body \in Bodies :
              /\ SameOutcome(create_contact(contacts, next_id, body, u),
                             create_contact(Mine(contacts, u), next_id, body, u), u)
              /\ \A id \in 1..MaxId :
                    SameOutcome(update_contact(contacts, id, body, u),
                                update_contact(Mine(contacts, u), id, body, u), u)

====
